---- MODULE Spec2Model ----
(***************************************************************************)
(* Model of src/lib.rs: the iterative permutation generator                *)
(* (Steinhaus-Johnson-Trotter with Even's speedup) and inverse_perm.       *)
(*                                                                         *)
(* A Vec of length len is a function with domain 0..len-1, so that every   *)
(* index of the model is the index the Rust code uses.  A panic (a failed  *)
(* assert!, an index out of bounds) is a value of `status`, never a state  *)
(* the model leaves out.                                                   *)
(***************************************************************************)
EXTENDS Integers, Sequences, FiniteSets, TLC

\* ------------------------------------------------------------------ bounds

\* The largest n a generator is constructed for (0 is tried as well).
MaxN == 5

\* The number of next() calls that return None the model follows.
MaxNones == 3

\* The longest vector handed to inverse_perm on its own.
MaxLen == 4

\* --------------------------------------------------------------- integers

\* The number of values of the type the `as usize` casts wrap in.  The
\* target's usize has 2^64 values, which TLC's integers cannot hold; every
\* vector of the model is shorter than 2^30, so a wrapped negative lands, as
\* on the target, far beyond every length it is compared with.
UsizeRange == 2^30

\* (x as isize + d as isize) as usize
as_usize(x) == x % UsizeRange

\* ---------------------------------------------------------------- vectors

\* The vector [s[1], ..., s[Len(s)]]: how the model writes a Vec literal.
Vec(s) == [k \in 0..(Len(s) - 1) |-> s[k + 1]]

\* vec![0; len]
zeros(len) == [k \in 0..(len - 1) |-> 0]

\* Vec::len
vec_len(v) == Cardinality(DOMAIN v)

\* A bug of the swap: the entry at a is written over the one at b and not
\* exchanged with it.
vec_swap_overwrite(v, a, b) == [v EXCEPT ![b] = v[a]]

\* Vec::swap(a, b), both indices in bounds
vec_swap(v, a, b) == [v EXCEPT ![a] = v[b], ![b] = v[a]]

\* The result of a call that may panic.
Ok(v) == [ok |-> TRUE, val |-> v]
Panicked == [ok |-> FALSE, val |-> <<>>]

\* ----------------------------------------------------------- inverse_perm

\* The loop of inverse_perm from its ii-th iteration up to (not including)
\* the iteration `end`: rev_perm[*i] = ii, one write after the other, in the
\* order of perm.
RECURSIVE inverse_loop(_, _, _, _)
inverse_loop(perm_, rev_perm, ii, end) ==
    IF ii >= end
    THEN rev_perm
    ELSE inverse_loop(perm_, [rev_perm EXCEPT ![perm_[ii]] = ii], ii + 1, end)

\* A bug of inverse_perm: the write goes the wrong way round (rev_perm[ii] = *i).
inverse_perm_copy(perm_) ==
    Ok([k \in DOMAIN perm_ |-> perm_[k]])

\* A bug of inverse_perm: the loop stops one element early.
inverse_perm_short(perm_) ==
    IF \E k \in DOMAIN perm_ : perm_[k] >= vec_len(perm_)
    THEN Panicked
    ELSE Ok(inverse_loop(perm_, perm_, 0, vec_len(perm_) - 1))

\* inverse_perm(&perm): rev_perm starts as a clone of perm; an entry of perm
\* that is no index of rev_perm makes the write panic.
inverse_perm(perm_) ==
    IF \E k \in DOMAIN perm_ : perm_[k] >= vec_len(perm_)
    THEN Panicked
    ELSE Ok(inverse_loop(perm_, perm_, 0, vec_len(perm_)))

\* ------------------------------------------------------------------ state

VARIABLES
    status,        \* "unbuilt" | "live" | "of_panicked" | "next_panicked"
    of_arg,        \* the argument of the call of Permutations::of
    n,             \* Permutations.n
    perm,          \* Permutations.perm
    direction,     \* Permutations.direction
    is_initiated,  \* Permutations.is_initiated
    is_finished,   \* Permutations.is_finished
    ret,           \* what the last call of next() returned
    out,           \* the vectors next() returned in Some, in order
    nones,         \* the number of calls of next() that returned None
    last,          \* the branch the last call of next() took, and its locals
    inv_pc,        \* inverse_perm on its own: "off" | "input" | "once" | "twice"
    inv_perm,      \* the vector handed to inverse_perm
    inv_rev,       \* inverse_perm(&inv_perm)
    inv_rev2       \* inverse_perm(&inv_rev)

gen_vars == <<status, of_arg, n, perm, direction, is_initiated, is_finished,
              ret, out, nones, last>>
inv_vars == <<inv_pc, inv_perm, inv_rev, inv_rev2>>
vars == <<status, of_arg, n, perm, direction, is_initiated, is_finished,
          ret, out, nones, last, inv_pc, inv_perm, inv_rev, inv_rev2>>

\* Option<Vec<usize>>
Some(v) == [kind |-> "Some", val |-> v]
None == [kind |-> "None", val |-> <<>>]
NoCall == [kind |-> "unset", val |-> <<>>]

\* The locals of next(): i, ii, id, ii_new (0 where the branch has none).
Locals(branch, i, ii, id, ii_new) ==
    [branch |-> branch, i |-> i, ii |-> ii, id |-> id, ii_new |-> ii_new]

RECURSIVE Fact(_)
Fact(k) == IF k <= 1 THEN 1 ELSE k * Fact(k - 1)

GenInit ==
    /\ status = "unbuilt"
    /\ of_arg = 0
    /\ n = 0
    /\ perm = <<>>
    /\ direction = <<>>
    /\ is_initiated = FALSE
    /\ is_finished = FALSE
    /\ ret = NoCall
    /\ out = <<>>
    /\ nones = 0
    /\ last = Locals("none", 0, 0, 0, 0)

InvOff ==
    /\ inv_pc = "off"
    /\ inv_perm = <<>>
    /\ inv_rev = Panicked
    /\ inv_rev2 = Panicked

Init == GenInit /\ InvOff

\* --------------------------------------------------------- Permutations::of

\* A bug of the constructor: the assertion is missing.
of_no_assert(k) ==
    /\ status = "unbuilt"
    /\ of_arg' = k
    /\ status' = "live"
    /\ n' = k
    /\ perm' = zeros(k)
    /\ direction' = zeros(k)
    /\ is_initiated' = FALSE
    /\ is_finished' = FALSE
    /\ UNCHANGED <<ret, out, nones, last>>
    /\ UNCHANGED inv_vars

\* Permutations::of(k): assert!(n > 0), then the struct literal.
of(k) ==
    /\ status = "unbuilt"
    /\ of_arg' = k
    /\ IF k > 0
       THEN /\ status' = "live"
            /\ n' = k
            /\ perm' = zeros(k)
            /\ direction' = zeros(k)
            /\ is_initiated' = FALSE
            /\ is_finished' = FALSE
       ELSE /\ status' = "of_panicked"
            /\ UNCHANGED <<n, perm, direction, is_initiated, is_finished>>
    /\ UNCHANGED <<ret, out, nones, last>>
    /\ UNCHANGED inv_vars

\* ------------------------------------------------------- Iterator::next

\* A bug of the first call: the vector is filled downwards (perm[i] = n - 1 - i).
first_perm_reversed(perm_, nn) ==
    [k \in 0..(nn - 1) |-> IF k >= 1 THEN nn - 1 - k ELSE perm_[k]]

\* The first call: for i in 1..n { perm[i] = i; ... }.  Entry 0 is not written.
first_perm(perm_, nn) == [k \in 0..(nn - 1) |-> IF k >= 1 THEN k ELSE perm_[k]]

\* A bug of the first call: the loop starts at 0, so entry 0 gets a direction.
first_direction_from_zero(dir, nn) == [k \in 0..(nn - 1) |-> -1]

\* The first call: for i in 1..n { ...; direction[i] = -1 }.  Entry 0 is not
\* written.
first_direction(dir, nn) == [k \in 0..(nn - 1) |-> IF k >= 1 THEN -1 ELSE dir[k]]

\* The scan for j in (0..n).rev(), from j downwards: ii = rev_perm[j],
\* id = direction[ii], and i = j at the first id != 0.  When no j has one, i
\* stays n and ii, id are those of j = 0.
RECURSIVE scan(_, _, _, _)
scan(rev_perm, dir, j, nn) ==
    LET ii == rev_perm[j]
        id == dir[ii]
    IN  IF id # 0 THEN [i |-> j, ii |-> ii, id |-> id]
        ELSE IF j = 0 THEN [i |-> nn, ii |-> ii, id |-> id]
        ELSE scan(rev_perm, dir, j - 1, nn)

\* A bug of the scan: it runs upwards and so finds the smallest mobile value.
RECURSIVE scan_up(_, _, _, _)
scan_up(rev_perm, dir, j, nn) ==
    LET ii == rev_perm[j]
        id == dir[ii]
    IN  IF id # 0 THEN [i |-> j, ii |-> ii, id |-> id]
        ELSE IF j = nn - 1 THEN [i |-> nn, ii |-> ii, id |-> id]
        ELSE scan_up(rev_perm, dir, j + 1, nn)

find_mobile_smallest(rev_perm, dir, nn) ==
    IF nn = 0
    THEN [i |-> nn, ii |-> 0, id |-> 0]
    ELSE scan_up(rev_perm, dir, 0, nn)

\* A bug of the scan: i starts at 0 and not at n, so a scan that finds no
\* mobile value is taken for one that found value 0.
find_mobile_zero_sentinel(rev_perm, dir, nn) ==
    IF nn = 0
    THEN [i |-> 0, ii |-> 0, id |-> 0]
    ELSE LET s == scan(rev_perm, dir, nn - 1, nn)
         IN  IF s.i = nn THEN [s EXCEPT !.i = 0] ELSE s

\* Find largest element i that has non-zero direction: i = n, ii = 0, id = 0,
\* then the scan (which an empty range does not enter).
find_mobile(rev_perm, dir, nn) ==
    IF nn = 0
    THEN [i |-> nn, ii |-> 0, id |-> 0]
    ELSE scan(rev_perm, dir, nn - 1, nn)

\* A bug of the settling rule: the test of position 0 is left out.
settles_no_first(perm_, i, ii_new, id, nn) ==
    IF ii_new = nn - 1
    THEN Ok(TRUE)
    ELSE LET k == as_usize(ii_new + id)
         IN  IF k >= nn THEN Panicked ELSE Ok(perm_[k] > i)

\* A bug of the settling rule: the comparison with the neighbour is the wrong
\* way round.
settles_less(perm_, i, ii_new, id, nn) ==
    IF ii_new = 0 \/ ii_new = nn - 1
    THEN Ok(TRUE)
    ELSE LET k == as_usize(ii_new + id)
         IN  IF k >= nn THEN Panicked ELSE Ok(perm_[k] < i)

\* A bug of the settling rule: the neighbour is not looked at, the moved value
\* settles at the two ends only.
settles_at_ends_only(perm_, i, ii_new, id, nn) ==
    Ok(ii_new = 0 \/ ii_new = nn - 1)

\* ii_new == 0 || ii_new == n - 1 || perm[(ii_new + id) as usize] > i, on the
\* vector after the swap; the third test is evaluated only when the first two
\* fail, and its index is checked.
settles(perm_, i, ii_new, id, nn) ==
    IF ii_new = 0 \/ ii_new = nn - 1
    THEN Ok(TRUE)
    ELSE LET k == as_usize(ii_new + id)
         IN  IF k >= nn THEN Panicked ELSE Ok(perm_[k] > i)

\* A bug of the direction update: the two directions are the wrong way round,
\* so the larger values point away from the moved one.
RECURSIVE update_directions_flipped(_, _, _, _, _)
update_directions_flipped(dir, rev_perm, j, ii_new, nn) ==
    IF j >= nn
    THEN dir
    ELSE LET ji == rev_perm[j]
         IN  update_directions_flipped(
                 [dir EXCEPT ![ji] = IF ji < ii_new THEN -1 ELSE 1],
                 rev_perm, j + 1, ii_new, nn)

\* A bug of the direction update: the distance to the moved value is stored,
\* not its sign.
RECURSIVE update_directions_distance(_, _, _, _, _)
update_directions_distance(dir, rev_perm, j, ii_new, nn) ==
    IF j >= nn
    THEN dir
    ELSE LET ji == rev_perm[j]
         IN  update_directions_distance(
                 [dir EXCEPT ![ji] = ii_new - ji],
                 rev_perm, j + 1, ii_new, nn)

\* for j in (i + 1)..n { ji = rev_perm[j]; direction[ji] = if ji < ii_new
\* { 1 } else { -1 } }, from j on.  rev_perm is the inverse taken before the swap.
RECURSIVE update_directions(_, _, _, _, _)
update_directions(dir, rev_perm, j, ii_new, nn) ==
    IF j >= nn
    THEN dir
    ELSE LET ji == rev_perm[j]
         IN  update_directions([dir EXCEPT ![ji] = IF ji < ii_new THEN 1 ELSE -1],
                               rev_perm, j + 1, ii_new, nn)

\* The branch of next() for a generator that has not been initiated.
next_first ==
    /\ perm' = first_perm(perm, n)
    /\ direction' = first_direction(direction, n)
    /\ is_initiated' = TRUE
    /\ ret' = Some(perm')
    /\ out' = Append(out, perm')
    /\ last' = Locals("first", 0, 0, 0, 0)
    /\ UNCHANGED <<status, is_finished, nones>>

\* A bug of the finished branch: the iterator starts over.
next_finished_restart ==
    /\ is_initiated' = FALSE
    /\ is_finished' = FALSE
    /\ ret' = None
    /\ nones' = nones + 1
    /\ last' = Locals("finished", 0, 0, 0, 0)
    /\ UNCHANGED <<status, perm, direction, out>>

\* if self.is_finished { return None; }
next_finished ==
    /\ ret' = None
    /\ nones' = nones + 1
    /\ last' = Locals("finished", 0, 0, 0, 0)
    /\ UNCHANGED <<status, perm, direction, is_initiated, is_finished, out>>

\* A panic inside next(): the call does not return.
next_panic(s, ii_new) ==
    /\ status' = "next_panicked"
    /\ last' = Locals("panic", s.i, s.ii, s.id, ii_new)
    /\ UNCHANGED <<perm, direction, is_initiated, is_finished, ret, out, nones>>

\* A bug of the exhausted branch: None is returned and the flag is not set.
next_exhausted_no_flag(s) ==
    /\ ret' = None
    /\ nones' = nones + 1
    /\ last' = Locals("exhausted", s.i, s.ii, s.id, 0)
    /\ UNCHANGED <<status, perm, direction, is_initiated, is_finished, out>>

\* if i == self.n { self.is_finished = true; return None; }
next_exhausted(s) ==
    /\ is_finished' = TRUE
    /\ ret' = None
    /\ nones' = nones + 1
    /\ last' = Locals("exhausted", s.i, s.ii, s.id, 0)
    /\ UNCHANGED <<status, perm, direction, is_initiated, out>>

\* Swap i along its direction, update the directions, return the new vector.
next_step(rev_perm, s) ==
    LET ii_new == as_usize(s.ii + s.id)
    IN  IF ii_new >= n
        THEN next_panic(s, ii_new)
        ELSE LET perm1 == vec_swap(perm, s.ii, ii_new)
                 dir1 == vec_swap(direction, s.ii, ii_new)
                 st == settles(perm1, s.i, ii_new, s.id, n)
             IN  IF ~st.ok
                 THEN next_panic(s, ii_new)
                 ELSE LET dir2 == IF st.val THEN [dir1 EXCEPT ![ii_new] = 0] ELSE dir1
                      IN  /\ perm' = perm1
                          /\ direction' = update_directions(dir2, rev_perm, s.i + 1, ii_new, n)
                          /\ ret' = Some(perm1)
                          /\ out' = Append(out, perm1)
                          /\ last' = Locals("step", s.i, s.ii, s.id, ii_new)
                          /\ UNCHANGED <<status, is_initiated, is_finished, nones>>

\* Iterator::next(&mut self).  The model follows a generator for MaxNones
\* calls that return None and for no more than Fact(MaxN) + 1 that return Some.
next ==
    /\ status = "live"
    /\ nones < MaxNones
    /\ Len(out) <= Fact(MaxN)
    /\ IF ~is_initiated
       THEN next_first
       ELSE IF is_finished
       THEN next_finished
       ELSE LET rev == inverse_perm(perm)
            IN  IF ~rev.ok
                THEN next_panic([i |-> n, ii |-> 0, id |-> 0], 0)
                ELSE LET s == find_mobile(rev.val, direction, n)
                     IN  IF s.i = n
                         THEN next_exhausted(s)
                         ELSE next_step(rev.val, s)
    /\ UNCHANGED <<of_arg, n>>
    /\ UNCHANGED inv_vars

Next ==
    \/ \E k \in 0..MaxN : of(k)
    \/ next

Spec == Init /\ [][Next]_vars

\* A caller that iterates the generator (for perm in Permutations::of(n))
\* keeps calling next() as long as a call is possible.
FairSpec == Spec /\ WF_vars(next)

\* ------------------------------------------------ inverse_perm on its own

\* The vectors inverse_perm is called with: every vector of at most MaxLen
\* entries, each an index of the vector or the first value that is none.
InvInputs == UNION {[0..(len - 1) -> 0..len] : len \in 0..MaxLen}

InvInit ==
    /\ GenInit
    /\ inv_pc = "input"
    /\ inv_perm \in InvInputs
    /\ inv_rev = Panicked
    /\ inv_rev2 = Panicked

\* let rev = inverse_perm(&perm);
call_inverse ==
    /\ inv_pc = "input"
    /\ inv_rev' = inverse_perm(inv_perm)
    /\ inv_pc' = "once"
    /\ UNCHANGED <<inv_perm, inv_rev2>>
    /\ UNCHANGED gen_vars

\* let rev2 = inverse_perm(&rev);, when the first call returned
call_inverse_again ==
    /\ inv_pc = "once"
    /\ inv_rev.ok
    /\ inv_rev2' = inverse_perm(inv_rev.val)
    /\ inv_pc' = "twice"
    /\ UNCHANGED <<inv_perm, inv_rev>>
    /\ UNCHANGED gen_vars

InvNext == call_inverse \/ call_inverse_again

InvSpec == InvInit /\ [][InvNext]_vars

\* ------------------------------------------------------------ properties

\* [0, 1, ..., nn-1]
Identity(nn) == [k \in 0..(nn - 1) |-> k]

\* v holds vec_len(v) distinct values, each in 0..vec_len(v)-1.
IsRearrangement(v) ==
    /\ \A k \in DOMAIN v : v[k] \in 0..(vec_len(v) - 1)
    /\ \A a, b \in DOMAIN v : v[a] = v[b] => a = b

\* Every rearrangement of 0..nn-1.
Rearrangements(nn) ==
    {f \in [0..(nn - 1) -> 0..(nn - 1)] : \A a, b \in 0..(nn - 1) : f[a] = f[b] => a = b}

\* The vectors next() has returned so far.
Produced == {out[k] : k \in 1..Len(out)}

\* The number of calls of next() that have returned.
Calls == Len(out) + nones

\* q is p with the entries at pos and pos + 1 exchanged, for one pos.
AdjacentSwap(p, q, nn) ==
    /\ q # p
    /\ \E pos \in 0..(nn - 2) : q = vec_swap(p, pos, pos + 1)

\* C1: a generator for n > 0 advanced until next() first returns None has
\* returned exactly n! vectors, and every rearrangement of 0..n-1 is among
\* them exactly once: no vector is returned twice, never more than n! are
\* returned, and at the first None the returned vectors are all n! of them.
C1_EveryPermutationOnce ==
    status # "unbuilt" /\ status # "of_panicked" =>
        /\ Len(out) <= Fact(n)
        /\ \A k \in 1..(Len(out) - 1) : out[k] # out[Len(out)]
        /\ status # "next_panicked"
        /\ nones >= 1 =>
              /\ Len(out) = Fact(n)
              /\ Produced = Rearrangements(n)
              /\ Cardinality(Produced) = Fact(n)

C1_Witness == n = 4 /\ nones = 1 /\ Len(out) = 24

\* C2: any two consecutive vectors next() returns differ by exactly one swap
\* of two adjacent positions.
C2_ConsecutiveAdjacentSwap ==
    \A k \in 1..(Len(out) - 1) : AdjacentSwap(out[k], out[k + 1], n)

C2_Witness == n = 4 /\ Len(out) = 24 /\ last.branch = "step"

\* C3: the first call of next() on a fresh generator returns the identity
\* [0, 1, ..., n-1] and sets is_initiated.
C3_FirstIsIdentity ==
    /\ Calls = 1 => last.branch = "first"
    /\ last.branch = "first" =>
          /\ ret = Some(Identity(n))
          /\ out = <<Identity(n)>>
          /\ nones = 0
    /\ last.branch # "none" =>
          /\ is_initiated
          /\ Len(out) >= 1
          /\ out[1] = Identity(n)

C3_Witness == n = 4 /\ last.branch = "first" /\ ret = Some(Vec(<<0, 1, 2, 3>>))

\* The six vectors of the scenario for n = 3, in order.
Expected3 ==
    << Vec(<<0, 1, 2>>), Vec(<<0, 2, 1>>), Vec(<<2, 0, 1>>),
       Vec(<<2, 1, 0>>), Vec(<<1, 2, 0>>), Vec(<<1, 0, 2>>) >>

\* C4: for n = 3 the calls of next() return [0,1,2], [0,2,1], [2,0,1],
\* [2,1,0], [1,2,0], [1,0,2] in this order, and the seventh returns None.
C4_ScenarioOfThree ==
    n = 3 =>
        /\ status = "live"
        /\ Len(out) <= 6
        /\ \A k \in 1..Len(out) : out[k] = Expected3[k]
        /\ nones >= 1 => out = Expected3
        /\ Calls = 7 => ret = None /\ nones = 1

C4_Witness == n = 3 /\ Calls = 7 /\ ret = None /\ out = Expected3

\* C5: once a call of next() has returned None, every later call returns None
\* and leaves perm, direction, is_initiated, is_finished and n as they are;
\* is_finished never goes back to false.
C5_ExhaustedStays ==
    [][ /\ nones >= 1 =>
              /\ ret' = None
              /\ nones' = nones + 1
              /\ status' = status
              /\ UNCHANGED <<n, perm, direction, is_initiated, is_finished, out>>
        /\ is_finished => is_finished' ]_vars

C5_Witness == n = 4 /\ nones = 3 /\ is_finished /\ Len(out) = 24

\* C6: construction with n = 0 fails and produces no generator; construction
\* with any n > 0 succeeds.
C6_ConstructionFailsOnlyForZero ==
    status # "unbuilt" =>
        /\ of_arg = 0 <=> status = "of_panicked"
        /\ status = "of_panicked" =>
              n = 0 /\ perm = <<>> /\ direction = <<>> /\ ret = NoCall
        /\ of_arg > 0 =>
              /\ n = of_arg
              /\ vec_len(perm) = n
              /\ vec_len(direction) = n

C6_Witness == status = "of_panicked" /\ of_arg = 0

\* C7: for n = 1 the first call of next() returns [0] and the second returns
\* None: the generator yields exactly one vector.
C7_ScenarioOfOne ==
    n = 1 =>
        /\ status = "live"
        /\ Len(out) <= 1
        /\ Calls >= 1 => out = <<Vec(<<0>>)>>
        /\ Calls = 1 => ret = Some(Vec(<<0>>))
        /\ Calls >= 2 => ret = None

C7_Witness == n = 1 /\ Calls = 2 /\ ret = None /\ out = <<Vec(<<0>>)>>

\* C8: for every rearrangement perm of 0..len-1, inverse_perm(&perm) returns
\* rev_perm of the same length with rev_perm[perm[i]] = i for every index i,
\* and perm is as it was.
C8_InverseMapsBack ==
    [][ (inv_pc = "input" /\ inv_pc' = "once" /\ IsRearrangement(inv_perm)) =>
            /\ inv_perm' = inv_perm
            /\ inv_rev'.ok
            /\ vec_len(inv_rev'.val) = vec_len(inv_perm)
            /\ DOMAIN inv_rev'.val = DOMAIN inv_perm
            /\ \A i \in DOMAIN inv_perm : inv_rev'.val[inv_perm[i]] = i ]_vars

C8_Witness ==
    /\ inv_pc = "once"
    /\ inv_perm = Vec(<<1, 2, 3, 0>>)
    /\ inv_rev = Ok(Vec(<<3, 0, 1, 2>>))

\* C9: for every rearrangement p of 0..len-1,
\* inverse_perm(inverse_perm(p)) = p.
C9_InverseRoundTrip ==
    (inv_pc = "twice" /\ IsRearrangement(inv_perm)) => inv_rev2 = Ok(inv_perm)

C9_Witness ==
    /\ inv_pc = "twice"
    /\ inv_perm = Vec(<<1, 2, 3, 0>>)
    /\ inv_rev = Ok(Vec(<<3, 0, 1, 2>>))
    /\ inv_rev2 = Ok(Vec(<<1, 2, 3, 0>>))

\* C10: after a successful construction no call of next() panics: in every
\* step the new position ii + id of the mobile value is in 0..n-1 (the cast
\* to usize does not wrap), and the neighbour at ii_new + id is read only
\* when that index is in 0..n-1 as well.
C10_NextNeverPanics ==
    /\ status # "next_panicked"
    /\ last.branch # "panic"
    /\ last.branch = "step" =>
          /\ last.id \in {-1, 1}
          /\ last.ii \in 0..(n - 1)
          /\ last.ii_new = last.ii + last.id
          /\ last.ii_new \in 0..(n - 1)
          /\ (last.ii_new # 0 /\ last.ii_new # n - 1) =>
                 last.ii_new + last.id \in 0..(n - 1)

C10_Witness ==
    /\ status = "live"
    /\ n = 4
    /\ last.branch = "step"
    /\ last.id = -1
    /\ last.ii_new = 0
    /\ direction[0] = 0

\* C11: a generator that is advanced again and again returns None after
\* finitely many calls: iterating it to completion terminates.
C11_EventuallyNone == (status = "live") ~> (nones >= 1)

C11_Witness == n = 5 /\ nones = 1 /\ Len(out) = 120 /\ ret = None

\* No position carries a non-zero direction.
NoneMobile == \A k \in DOMAIN direction : direction[k] = 0

\* C12: the flags only move forward, NotStarted (false, false) -> Running
\* (true, false) -> Exhausted (true, true): no call resets a flag,
\* is_finished implies is_initiated, and is_finished becomes true exactly in
\* the call of next() whose scan finds no value with a non-zero direction.
C12_FlagsMoveForward ==
    [][ /\ is_initiated => is_initiated'
        /\ is_finished => is_finished'
        /\ is_finished' => is_initiated'
        /\ (~is_initiated /\ is_initiated') => ~is_finished'
        /\ (~is_finished /\ is_finished') <=>
               (status = "live" /\ is_initiated /\ ~is_finished /\ NoneMobile) ]_vars

C12_Witness ==
    /\ n = 4
    /\ is_initiated
    /\ is_finished
    /\ last.branch = "exhausted"
    /\ NoneMobile

\* C13 as it is stated: at every observable point of a generator's lifetime,
\* after construction and after every call of next(), perm holds n distinct
\* values, each in 0..n-1.
C13_RearrangementAlways ==
    (status = "live" \/ status = "next_panicked") =>
        vec_len(perm) = n /\ IsRearrangement(perm)

\* C13, amended: after every call of next(), from the first on, perm holds n
\* distinct values, each in 0..n-1; between construction and the first call
\* it is the buffer of n zeros.
C13_RearrangementOnceInitiated ==
    (status = "live" \/ status = "next_panicked") =>
        /\ vec_len(perm) = n
        /\ is_initiated <=> last.branch # "none"
        /\ is_initiated => IsRearrangement(perm)
        /\ ~is_initiated => perm = zeros(n)

C13_Witness ==
    /\ n = 4
    /\ is_initiated
    /\ last.branch = "step"
    /\ perm = Vec(<<3, 1, 0, 2>>)

\* C14: in every reachable state of a generator the direction vector has the
\* length n of perm and every entry is -1, 0 or 1.
C14_DirectionShape ==
    (status = "live" \/ status = "next_panicked") =>
        /\ vec_len(direction) = n
        /\ DOMAIN direction = DOMAIN perm
        /\ \A k \in DOMAIN direction : direction[k] \in {-1, 0, 1}

C14_Witness ==
    /\ n = 4
    /\ last.branch = "step"
    /\ \E a, b, c \in DOMAIN direction :
          direction[a] = -1 /\ direction[b] = 0 /\ direction[c] = 1

\* The position of value v in the rearrangement p.
PosOf(p, v) == CHOOSE k \in DOMAIN p : p[k] = v

\* The step is a call of next() that moved a value.
Moved == last'.branch = "step" /\ Len(out') = Len(out) + 1

\* C15: in every step that does not exhaust, the moved value is the largest
\* value whose position carries a non-zero direction; it moves one position
\* in that direction by a swap with its neighbour, and the direction entries
\* of the two positions are swapped with the entries of perm.  A call of a
\* running generator signals exhaustion if and only if no position carries a
\* non-zero direction.
C15_LargestMobileMoves ==
    [][ /\ Moved =>
              /\ perm[last'.ii] = last'.i
              /\ direction[last'.ii] = last'.id
              /\ last'.id # 0
              /\ \A v \in (last'.i + 1)..(n - 1) : direction[PosOf(perm, v)] = 0
              /\ last'.ii_new = last'.ii + last'.id
              /\ perm' = [perm EXCEPT ![last'.ii] = perm[last'.ii_new],
                                      ![last'.ii_new] = perm[last'.ii]]
              /\ direction'[last'.ii] = direction[last'.ii_new]
              /\ direction'[last'.ii_new] \in {last'.id, 0}
        /\ (status = "live" /\ is_initiated /\ ~is_finished) =>
              /\ (ret' = None /\ nones' = nones + 1) <=> NoneMobile
              /\ Moved <=> ~NoneMobile ]_vars

C15_Witness ==
    /\ n = 4
    /\ last.branch = "step"
    /\ last.i = 2
    /\ last.id = 1
    /\ perm[last.ii_new] = 2
    /\ direction[PosOf(perm, 3)] # 0

\* C16: after a step that moved value m with direction id to ii_new, the
\* direction at ii_new is 0 if ii_new = 0, or ii_new = n - 1, or the value at
\* ii_new + id is greater than m; otherwise it is still id.
C16_SettlingRule ==
    last.branch = "step" =>
        direction[last.ii_new] =
            IF \/ last.ii_new = 0
               \/ last.ii_new = n - 1
               \/ perm[last.ii_new + last.id] > last.i
            THEN 0
            ELSE last.id

C16_Witness ==
    /\ n = 4
    /\ last.branch = "step"
    /\ last.ii_new = 2
    /\ last.id = -1
    /\ last.i = 1
    /\ perm[1] = 2
    /\ direction[2] = 0

\* C17: after a step that moved value m to ii_new, every value v > m has, at
\* its position, direction 1 if the position is less than ii_new and -1
\* otherwise; every value smaller than m has the direction it had.
C17_DirectionsAfterStep ==
    [][ Moved =>
          /\ \A v \in (last'.i + 1)..(n - 1) :
                direction'[PosOf(perm', v)] =
                    IF PosOf(perm', v) < last'.ii_new THEN 1 ELSE -1
          /\ \A v \in 0..(last'.i - 1) :
                direction'[PosOf(perm', v)] = direction[PosOf(perm, v)] ]_vars

C17_Witness ==
    /\ n = 4
    /\ last.branch = "step"
    /\ last.i = 1
    /\ direction[PosOf(perm, 3)] = 1
    /\ direction[PosOf(perm, 2)] = 1
    /\ direction[PosOf(perm, 0)] = 0

\* C18: in every step the value the mobile value m is swapped with is smaller
\* than m.  Hence the inverse taken before the swap gives the position after
\* the swap of every v > m, and the direction update writes neither to the
\* old nor to the new position of m.
C18_SwapPartnerSmaller ==
    [][ Moved =>
          /\ perm[last'.ii_new] < last'.i
          /\ perm'[last'.ii] < last'.i
          /\ \A v \in (last'.i + 1)..(n - 1) :
                /\ PosOf(perm', v) = PosOf(perm, v)
                /\ PosOf(perm, v) # last'.ii
                /\ PosOf(perm, v) # last'.ii_new ]_vars

C18_Witness ==
    /\ n = 4
    /\ last.branch = "step"
    /\ last.i = 2
    /\ perm[last.ii] = 1
    /\ last.ii_new = last.ii + 1

\* C19: for n >= 2 the last vector returned before exhaustion is
\* [1, 0, 2, 3, ..., n-1], the identity with positions 0 and 1 exchanged, and
\* every direction is 0 then.
C19_LastPermutation ==
    (n >= 2 /\ nones >= 1) =>
        /\ out[Len(out)] = [k \in 0..(n - 1) |-> IF k = 0 THEN 1 ELSE IF k = 1 THEN 0 ELSE k]
        /\ perm = out[Len(out)]
        /\ NoneMobile
        /\ AdjacentSwap(out[1], out[Len(out)], n)

C19_Witness ==
    /\ n = 5
    /\ nones = 1
    /\ perm = Vec(<<1, 0, 2, 3, 4>>)
    /\ NoneMobile

\* C20: position 0 is settled after the first call of next() (direction[0] = 0,
\* the directions at 1..n-1 are -1), and in every reachable state the direction
\* at the position of value 0 is 0: value 0 is never the mobile value.
C20_ZeroNeverMobile ==
    /\ last.branch = "first" =>
          direction = [k \in 0..(n - 1) |-> IF k = 0 THEN 0 ELSE -1]
    /\ is_initiated => direction[PosOf(perm, 0)] = 0
    /\ last.branch \in {"step", "panic"} => last.i # 0

C20_Witness ==
    /\ n = 4
    /\ last.branch = "step"
    /\ PosOf(perm, 0) = 3
    /\ direction[3] = 0

====
